---------------------------- MODULE Spec2Model ----------------------------
(***************************************************************************)
(* FFMTextIterator (reco_utils/recommender/deeprec/IO/iterator.py):        *)
(* the line parser, the batching generator load_data_from_file and the     *)
(* sparse encoder _convert_data.                                           *)
(*                                                                         *)
(* Text is modelled after splitting: a line is its space-separated columns *)
(* (cols) and the parts that follow '%' separators (ids); a column is its  *)
(* colon-separated parts; a part is a literal.  Floats are represented by  *)
(* twice their value (every modelled literal is a multiple of 0.5).        *)
(***************************************************************************)
EXTENDS Integers, Sequences, FiniteSets, TLC

\* ------------------------------------------------------------- bounds
MaxLines == 4
MaxBatch == 2
MaxWords == 1
MaxRecords == 2
MaxTriples == 3
\* hparams.FIELD_COUNT and hparams.FEATURE_COUNT of the run
FIELD_COUNT == 2
FEATURE_COUNT == 2

VARIABLES
    batch_size,          \* hparams.batch_size
    L,                   \* number of lines of the source file
    nread,               \* lines returned by rd.readline() so far
    src_labels,          \* label column text of every line read, in order
    last_line,           \* the line most recently returned by rd.readline()
    rd,                  \* the GFile handle: "unopened", "open", "closed"
    pc,                  \* position of the generator
    err,                 \* exception that left the generator, or "none"
    label_list, features_list, impression_id_list, cnt,
    feed,                \* feed dict the generator is suspended on (empty otherwise)
    out_labels,          \* label rows of every feed dict yielded, in order
    out_sizes            \* record count of every feed dict yielded, in order

vars == <<batch_size, L, nread, src_labels, last_line, rd, pc, err,
          label_list, features_list, impression_id_list, cnt, feed,
          out_labels, out_sizes>>

\* ------------------------------------------------------------ literals
Digits == <<"0", "1", "2", "3", "4", "5", "6", "7", "8", "9">>

Digit(n) == Digits[n + 1]

\* int(text) succeeds
IsIntText(a) == \E n \in 1..Len(Digits) : Digits[n] = a

IntOf(a) == (CHOOSE n \in 1..Len(Digits) : Digits[n] = a) - 1

\* float(text) succeeds
IsFloatText(a) == IsIntText(a) \/ a = "0.5"

\* float(text), as twice the value
FloatOf(a) == IF a = "0.5" THEN 1 ELSE 2 * IntOf(a)

Pow2(n) == 2 ^ n

\* np.float32 of a double, both as twice the value: 24 significant bits, ties
\* to even (for magnitudes below 2^25)
AsFloat32(h) ==
    LET a == IF h < 0 THEN -h ELSE h
        r == IF a < Pow2(24) THEN a
             ELSE LET q == a \div 2
                  IN  IF a % 2 = 0 THEN a
                      ELSE IF q % 2 = 0 THEN 2 * q ELSE 2 * (q + 1)
    IN  IF h < 0 THEN -r ELSE r

None == "None"

\* ------------------------------------------------------ parser_one_line
\* a parser that drops a column it cannot read and goes on
WordStatus_Skip(word) ==
    IF word = <<"">> THEN "skip"
    ELSE IF \/ Len(word) < 3
            \/ ~IsIntText(word[1])
            \/ ~IsIntText(word[2])
            \/ ~IsFloatText(word[3])
         THEN "skip"
         ELSE "ok"

\* evaluation of [int(tokens[0]) - 1, int(tokens[1]) - 1, float(tokens[2])]
WordStatus(word) ==
    IF word = <<"">> THEN "skip"
    ELSE IF ~IsIntText(word[1]) THEN "ValueError"
    ELSE IF Len(word) < 2 THEN "IndexError"
    ELSE IF ~IsIntText(word[2]) THEN "ValueError"
    ELSE IF Len(word) < 3 THEN "IndexError"
    ELSE IF ~IsFloatText(word[3]) THEN "ValueError"
    ELSE "ok"

TripleOf(word) == <<IntOf(word[1]) - 1, IntOf(word[2]) - 1, FloatOf(word[3])>>

RECURSIVE ParseWords(_, _)
ParseWords(ws, acc) ==
    IF ws = <<>> THEN [err |-> "none", features |-> acc]
    ELSE LET s == WordStatus(Head(ws))
         IN  IF s = "skip" THEN ParseWords(Tail(ws), acc)
             ELSE IF s = "ok"
                  THEN ParseWords(Tail(ws), Append(acc, TripleOf(Head(ws))))
                  ELSE [err |-> s, features |-> acc]

parser_one_line(line) ==
    LET impression_id == IF Len(line.ids) = 1 THEN line.ids[1] ELSE None
        col0 == line.cols[1]
    IN  IF ~(Len(col0) = 1 /\ IsFloatText(col0[1]))
        THEN [err |-> "ValueError", label |-> 0, features |-> <<>>,
              impression_id |-> impression_id]
        ELSE LET p == ParseWords(Tail(line.cols), <<>>)
             IN  [err |-> p.err, label |-> FloatOf(col0[1]),
                  features |-> p.features, impression_id |-> impression_id]

\* -------------------------------------------------------- _convert_data
\* lexicographic order of the sort key (dnn_feat_indices[k][0], dnn_feat_indices[k][1])
KeyLE(a, b) == a[1] < b[1] \/ (a[1] = b[1] /\ a[2] <= b[2])

\* position of k in a stably sorted list: after every entry whose key is <= its own
InsertByKey(s, k, indices) ==
    LET pos == Cardinality({p \in 1..Len(s) : KeyLE(indices[s[p]], indices[k])})
    IN  SubSeq(s, 1, pos) \o <<k>> \o SubSeq(s, pos + 1, Len(s))

RECURSIVE SortFrom(_, _, _)
SortFrom(s, k, indices) ==
    IF k > Len(indices) THEN s
    ELSE SortFrom(InsertByKey(s, k, indices), k + 1, indices)

\* the lists left in insertion order
SortedIndex_Unsorted(indices) == [p \in 1..Len(indices) |-> p]

\* sorted(range(len(dnn_feat_indices)), key=...): a stable sort
SortedIndex(indices) == SortFrom(<<>>, 1, indices)

\* array[sorted_index]
Take(array, sorted_index) == [p \in 1..Len(sorted_index) |-> array[sorted_index[p]]]

\* occurrence counters that start at 1
DicUpdate_FromOne(dic, f) ==
    IF f \in DOMAIN dic THEN [dic EXCEPT ![f] = @ + 1]
    ELSE [g \in DOMAIN dic \cup {f} |-> IF g = f THEN 1 ELSE dic[g]]

\* dnn_feat_dic after seeing field f
DicUpdate(dic, f) ==
    IF f \in DOMAIN dic THEN [dic EXCEPT ![f] = @ + 1]
    ELSE [g \in DOMAIN dic \cup {f} |-> IF g = f THEN 0 ELSE dic[g]]

\* dnn_feat_dic = {} at the start of each record
NewDic == [g \in {} |-> 0]

\* one iteration of the inner loop, for triple j of record i (i 0-based)
ConvertTriple(i, t, dic, st) ==
    [fm_feat_indices  |-> Append(st.fm_feat_indices, <<i, t[2]>>),
     fm_feat_values   |-> Append(st.fm_feat_values, t[3]),
     dnn_feat_indices |-> Append(st.dnn_feat_indices,
                                 <<i * FIELD_COUNT + t[1], dic[t[1]]>>),
     dnn_feat_values  |-> Append(st.dnn_feat_values, t[2]),
     dnn_feat_weights |-> Append(st.dnn_feat_weights, t[3]),
     width            |-> IF st.width < dic[t[1]] THEN dic[t[1]] ELSE st.width]

RECURSIVE ConvertRecord(_, _, _, _, _)
ConvertRecord(i, feats, j, dic, st) ==
    IF j > Len(feats) THEN st
    ELSE LET dic2 == DicUpdate(dic, feats[j][1])
         IN  ConvertRecord(i, feats, j + 1, dic2,
                           ConvertTriple(i, feats[j], dic2, st))

RECURSIVE ConvertFrom(_, _, _)
ConvertFrom(i, features, st) ==
    IF i >= Len(features) THEN st
    ELSE ConvertFrom(i + 1, features,
                     ConvertRecord(i, features[i + 1], 1, NewDic, st))

\* the lists and dnn_feat_shape[1] before the loop
ConvertInit ==
    [fm_feat_indices |-> <<>>, fm_feat_values |-> <<>>,
     dnn_feat_indices |-> <<>>, dnn_feat_values |-> <<>>,
     dnn_feat_weights |-> <<>>, width |-> -1]

\* the flat shape given the field-grouped row count
FmShape_Rows(instance_cnt) == <<instance_cnt * FIELD_COUNT, FEATURE_COUNT>>

FmShape(instance_cnt) == <<instance_cnt, FEATURE_COUNT>>

DnnShape(instance_cnt, width) == <<instance_cnt * FIELD_COUNT, width + 1>>

LabelRows(labels) == [n \in 1..Len(labels) |-> <<AsFloat32(labels[n])>>]

AsFloat32Array(a) == [n \in 1..Len(a) |-> AsFloat32(a[n])]

_convert_data(labels, features) ==
    LET instance_cnt == Len(labels)
        st == ConvertFrom(0, SubSeq(features, 1, instance_cnt), ConvertInit)
        sorted_index == SortedIndex(st.dnn_feat_indices)
    IN  [fm_feat_indices  |-> st.fm_feat_indices,
         fm_feat_values   |-> AsFloat32Array(st.fm_feat_values),
         fm_feat_shape    |-> FmShape(instance_cnt),
         labels           |-> LabelRows(labels),
         dnn_feat_indices |-> Take(st.dnn_feat_indices, sorted_index),
         dnn_feat_values  |-> Take(st.dnn_feat_values, sorted_index),
         dnn_feat_weights |-> Take(AsFloat32Array(st.dnn_feat_weights), sorted_index),
         dnn_feat_shape   |-> DnnShape(instance_cnt, st.width)]

\* the feed dict, keyed by the placeholders' names
gen_feed_dict(data_dict) ==
    [label            |-> data_dict.labels,
     fm_feat_indices  |-> data_dict.fm_feat_indices,
     fm_feat_values   |-> data_dict.fm_feat_values,
     fm_feat_shape    |-> data_dict.fm_feat_shape,
     dnn_feat_indices |-> data_dict.dnn_feat_indices,
     dnn_feat_values  |-> data_dict.dnn_feat_values,
     dnn_feat_weights |-> data_dict.dnn_feat_weights,
     dnn_feat_shape   |-> data_dict.dnn_feat_shape]

\* --------------------------------------------------------------- inputs
SeqsUpTo(S, n) == UNION {[1..k -> S] : k \in 0..n}

\* label columns float() accepts
LabelTexts == {"0", "1"}

\* label columns float() rejects
BadLabelTexts == {"abc"}

\* feature columns accepted by the parser: in range, out of range by one,
\* with a fourth part, and the empty column between two separators
GoodWords ==
    {<<"1", "1", "1">>,
     <<Digit(FIELD_COUNT + 1), Digit(FEATURE_COUNT + 1), "0.5">>,
     <<"1", "1", "1", "abc">>,
     <<"">>}

\* feature columns the parser rejects
BadWords ==
    {<<"1", "1">>, <<"1">>, <<"abc", "1", "1">>, <<"1", "abc", "1">>,
     <<"1", "1", "abc">>, <<"0.5", "1", "1">>}

\* what follows the first '%': one identifier, or two separators
IdParts == {<<"u1">>, <<"u1", "u2">>}

\* a line holding only its newline
BlankLine == [cols |-> << <<"">> >>, ids |-> <<>>]

\* the feature columns of a line: the columns after the first rejected one
\* are never read, so a rejected column is the last of its line
WordLists ==
    {ws \o tl : ws \in SeqsUpTo(GoodWords, MaxWords),
                tl \in {<<>>} \cup {<<b>> : b \in BadWords}}

Lines ==
    {[cols |-> << <<l>> >> \o ws, ids |-> <<>>] :
        l \in LabelTexts, ws \in {w \in WordLists : Len(w) <= MaxWords}}
    \cup {[cols |-> << <<l>> >>, ids |-> i] : l \in LabelTexts, i \in IdParts}
    \cup {[cols |-> << <<l>> >>, ids |-> <<>>] : l \in BadLabelTexts}
    \cup {BlankLine}

NoLine == [cols |-> <<>>, ids |-> <<>>]

EmptyFeed ==
    [label |-> <<>>, fm_feat_indices |-> <<>>, fm_feat_values |-> <<>>,
     fm_feat_shape |-> <<>>, dnn_feat_indices |-> <<>>,
     dnn_feat_values |-> <<>>, dnn_feat_weights |-> <<>>,
     dnn_feat_shape |-> <<>>]

\* -------------------------------------------------- load_data_from_file
\* a batch emitted one record late
BatchFull_Late(c) == c > batch_size

\* `if cnt == self.batch_size`
BatchFull(c) == c = batch_size

\* a last batch of one record is dropped
HasRemainder_OffByOne(c) == c > 1

\* `if cnt > 0` after the loop
HasRemainder(c) == c > 0

\* a handle opened without `with`: nothing closes it
WithExit_Leak(h) == h

\* leaving the `with` block, by any way out, closes the handle
WithExit(h) == "closed"

\* the lists kept across the yield
Cleared_Kept(list) == list

\* the lists after a yield
Cleared(list) == <<>>

Init ==
    /\ batch_size \in 1..MaxBatch
    /\ L \in 0..MaxLines
    /\ nread = 0
    /\ src_labels = <<>>
    /\ last_line = NoLine
    /\ rd = "unopened"
    /\ pc = "start"
    /\ err = "none"
    /\ label_list = <<>>
    /\ features_list = <<>>
    /\ impression_id_list = <<>>
    /\ cnt = 0
    /\ feed = EmptyFeed
    /\ out_labels = <<>>
    /\ out_sizes = <<>>

\* `res = self._convert_data(...)`, `yield self.gen_feed_dict(res)` at `at`
Yield(labels, features, at) ==
    /\ feed' = gen_feed_dict(_convert_data(labels, features))
    /\ out_labels' = out_labels \o feed'.label
    /\ out_sizes' = Append(out_sizes, Len(feed'.label))
    /\ pc' = at

\* the consumer's first next(): the generator runs to the readline
Start ==
    /\ pc = "start"
    /\ label_list' = <<>>
    /\ features_list' = <<>>
    /\ impression_id_list' = <<>>
    /\ cnt' = 0
    /\ rd' = "open"
    /\ pc' = "reading"
    /\ UNCHANGED <<batch_size, L, nread, src_labels, last_line, err, feed,
                   out_labels, out_sizes>>

\* one iteration of the loop: readline returns a line
ReadLine ==
    /\ pc = "reading"
    /\ nread < L
    /\ \E line \in Lines :
        LET p == parser_one_line(line)
        IN  /\ nread' = nread + 1
            /\ last_line' = line
            /\ src_labels' = Append(src_labels, line.cols[1])
            /\ IF p.err # "none"
               THEN /\ err' = p.err
                    /\ pc' = "error"
                    /\ rd' = WithExit(rd)
                    /\ UNCHANGED <<label_list, features_list,
                                   impression_id_list, cnt, feed,
                                   out_labels, out_sizes>>
               ELSE /\ features_list' = Append(features_list, p.features)
                    /\ label_list' = Append(label_list, p.label)
                    /\ impression_id_list' =
                           Append(impression_id_list, p.impression_id)
                    /\ cnt' = cnt + 1
                    /\ IF BatchFull(cnt + 1)
                       THEN Yield(label_list', features_list', "yield87")
                       ELSE /\ pc' = "reading"
                            /\ UNCHANGED <<feed, out_labels, out_sizes>>
                    /\ UNCHANGED <<err, rd>>
    /\ UNCHANGED <<batch_size, L>>

\* readline returns '': the loop breaks
ReadEOF ==
    /\ pc = "reading"
    /\ nread = L
    /\ IF HasRemainder(cnt)
       THEN /\ Yield(label_list, features_list, "yield94")
            /\ UNCHANGED rd
       ELSE /\ pc' = "done"
            /\ rd' = WithExit(rd)
            /\ UNCHANGED <<feed, out_labels, out_sizes>>
    /\ UNCHANGED <<batch_size, L, nread, src_labels, last_line, err,
                   label_list, features_list, impression_id_list, cnt>>

\* next() at the yield of line 87: the lists are reset and the loop goes on
Resume87 ==
    /\ pc = "yield87"
    /\ label_list' = Cleared(label_list)
    /\ features_list' = Cleared(features_list)
    /\ impression_id_list' = Cleared(impression_id_list)
    /\ cnt' = 0
    /\ feed' = EmptyFeed
    /\ pc' = "reading"
    /\ UNCHANGED <<batch_size, L, nread, src_labels, last_line, rd, err,
                   out_labels, out_sizes>>

\* next() at the yield of line 94: the `with` block and the generator end
Resume94 ==
    /\ pc = "yield94"
    /\ pc' = "done"
    /\ rd' = WithExit(rd)
    /\ feed' = EmptyFeed
    /\ UNCHANGED <<batch_size, L, nread, src_labels, last_line, err,
                   label_list, features_list, impression_id_list, cnt,
                   out_labels, out_sizes>>

\* the consumer stops: close() (also run when the generator is dropped)
\* raises GeneratorExit at the yield, which leaves the `with` block
Close ==
    /\ pc \in {"start", "yield87", "yield94"}
    /\ pc' = "closed"
    /\ rd' = IF rd = "open" THEN WithExit(rd) ELSE rd
    /\ UNCHANGED <<batch_size, L, nread, src_labels, last_line, err,
                   label_list, features_list, impression_id_list, cnt, feed,
                   out_labels, out_sizes>>

Next == Start \/ ReadLine \/ ReadEOF \/ Resume87 \/ Resume94 \/ Close

Spec == Init /\ [][Next]_vars

\* the steps of the caller: next() and close()
Consumer == Start \/ Resume87 \/ Resume94 \/ Close

\* weak fairness of the generator's own steps, ReadLine \/ ReadEOF, with
\* ENABLED written as their guard (one of the two is enabled exactly when
\* pc = "reading") and the step as any step taken from there
GeneratorFair ==
    \/ []<>(pc # "reading")
    \/ []<><<pc = "reading">>_vars

\* the caller goes on until it has drained or closed the generator, and a
\* resumed generator runs to its next yield, return or exception
LiveSpec == Spec /\ WF_vars(Consumer) /\ GeneratorFair

\* ------------------------------------------- _convert_data on any batch
\* parsed triples [field, feature index, weight]: the first and the last
\* field, and the field and the feature index one past the configured counts
EncFields == {0, FIELD_COUNT - 1, FIELD_COUNT}

\* feature index and weight: a feature within FEATURE_COUNT under two
\* weights, and the feature one past it
EncValues == {<<0, 1>>, <<0, 2>>, <<FEATURE_COUNT, 1>>}

EncTriples == {<<f, v[1], v[2]>> : f \in EncFields, v \in EncValues}

RECURSIVE SumTo(_, _)
SumTo(f, n) == IF n = 0 THEN 0 ELSE f[n] + SumTo(f, n - 1)

\* the records of lengths lens[1], lens[2], ... cut from the triples flat
Cut(flat, lens) ==
    [i \in DOMAIN lens |->
        SubSeq(flat, SumTo(lens, i - 1) + 1, SumTo(lens, i))]

EncInit ==
    /\ \E n \in 1..MaxRecords :
        \E lens \in [1..n -> 0..MaxTriples] :
            /\ SumTo(lens, n) <= MaxTriples
            /\ \E flat \in [1..SumTo(lens, n) -> EncTriples] :
                /\ features_list = Cut(flat, lens)
                /\ label_list = [i \in 1..n |-> 2]
                /\ impression_id_list = [i \in 1..n |-> None]
                /\ cnt = n
                /\ batch_size = n
    /\ L = 0
    /\ nread = 0
    /\ src_labels = <<>>
    /\ last_line = NoLine
    /\ rd = "unopened"
    /\ pc = "convert"
    /\ err = "none"
    /\ feed = EmptyFeed
    /\ out_labels = <<>>
    /\ out_sizes = <<>>

\* `res = self._convert_data(label_list, features_list)` and its feed dict
EncConvert ==
    /\ pc = "convert"
    /\ feed' = gen_feed_dict(_convert_data(label_list, features_list))
    /\ pc' = "converted"
    /\ UNCHANGED <<batch_size, L, nread, src_labels, last_line, rd, err,
                   label_list, features_list, impression_id_list, cnt,
                   out_labels, out_sizes>>

EncNext == EncConvert

EncSpec == EncInit /\ [][EncNext]_vars

\* ==================================================== properties: batching
AtYield == pc \in {"yield87", "yield94"}

CeilDiv(a, b) == (a + b - 1) \div b

Min(a, b) == IF a < b THEN a ELSE b

\* C1: every emitted batch has between 1 and batch_size records, and a fully
\* consumed source of L lines gave ceil(L / batch_size) batches, all of
\* batch_size records except the last, which has L mod batch_size records
\* (batch_size when that is 0); an empty source gave none.
C1_BatchCount ==
    /\ \A k \in 1..Len(out_sizes) : out_sizes[k] >= 1 /\ out_sizes[k] <= batch_size
    /\ pc = "done" =>
        /\ Len(out_sizes) = CeilDiv(L, batch_size)
        /\ \A k \in 1..(Len(out_sizes) - 1) : out_sizes[k] = batch_size
        /\ Len(out_sizes) > 0 =>
              out_sizes[Len(out_sizes)] =
                  IF L % batch_size = 0 THEN batch_size ELSE L % batch_size

\* a drained run whose last batch is partial and follows a full one
C1_Witness ==
    /\ pc = "done"
    /\ batch_size >= 2
    /\ L > batch_size
    /\ L % batch_size # 0

\* C2: the label rows of the emitted batches, concatenated in emission order,
\* are the labels of the source's lines in source order, one row per line; when
\* the source has been drained every line has been emitted exactly once.
C2_OrderPreserved ==
    /\ Len(out_labels) <= Len(src_labels)
    /\ \A n \in 1..Len(out_labels) :
          out_labels[n] = <<AsFloat32(FloatOf(src_labels[n][1]))>>
    /\ pc = "done" => Len(out_labels) = L

\* a drained run of two batches or more whose first two lines differ in label
C2_Witness ==
    /\ pc = "done"
    /\ Len(out_sizes) >= 2
    /\ out_labels[1] # out_labels[2]

InRange(t) == t[1] < FIELD_COUNT /\ t[2] < FEATURE_COUNT

\* C3: a batch holding a triple whose field is >= FIELD_COUNT or whose feature
\* index is >= FEATURE_COUNT produces no payload (encoding it is an error).
C3_RangeChecked ==
    AtYield =>
        \A i \in 1..Len(features_list) :
            \A j \in 1..Len(features_list[i]) : InRange(features_list[i][j])

MalformedAny(line) ==
    \E c \in 2..Len(line.cols) :
        LET w == line.cols[c]
        IN  /\ w # <<"">>
            /\ \/ Len(w) < 3
               \/ \E q \in 1..Len(w) : ~IsFloatText(w[q])

\* a feature column with fewer than three parts, or whose field or index part
\* int() rejects, or whose weight part float() rejects
MalformedRead(line) ==
    \E c \in 2..Len(line.cols) :
        LET w == line.cols[c]
        IN  /\ w # <<"">>
            /\ \/ Len(w) < 3
               \/ ~IsIntText(w[1])
               \/ ~IsIntText(w[2])
               \/ ~IsFloatText(w[3])

\* the run failed on the line read last: no record of that line or of a later
\* one is in a batch, only the full batches before it were emitted
FailedOnLastLine ==
    /\ pc = "error"
    /\ err \in {"ValueError", "IndexError"}
    /\ feed = EmptyFeed
    /\ Len(out_labels) = batch_size * ((nread - 1) \div batch_size)

C8_NoReadAhead ==
    /\ [](AtYield => nread = Min(Len(out_sizes) * batch_size, L))
    /\ [][AtYield => nread' = nread]_vars

\* the second batch is handed over while lines of the source are still unread
C8_Witness ==
    /\ pc = "yield87"
    /\ Len(out_sizes) = 2
    /\ nread < L

\* C10: the field-grouped index pairs of a payload are pairwise distinct.
C10_DistinctPairs ==
    AtYield =>
        \A p, q \in 1..Len(feed.dnn_feat_indices) :
            p # q => feed.dnn_feat_indices[p] # feed.dnn_feat_indices[q]

\* ==================================================== properties: encoding
Converted == pc = "converted"

\* number of entries of seq equal to x
Count(seq, x) == Cardinality({p \in DOMAIN seq : seq[p] = x})

\* the entries (index pair, value, weight) of three parallel arrays
Entries(indices, values, weights) ==
    [p \in DOMAIN indices |-> <<indices[p], values[p], weights[p]>>]

\* the field-grouped lists as the loop leaves them, before the sort
BuiltEntries ==
    LET st == ConvertFrom(0, features_list, ConvertInit)
    IN  Entries(st.dnn_feat_indices, st.dnn_feat_values,
                AsFloat32Array(st.dnn_feat_weights))

FeedEntries ==
    Entries(feed.dnn_feat_indices, feed.dnn_feat_values, feed.dnn_feat_weights)

\* C5: the field-grouped index pairs of a payload ascend by (row, col), and
\* the entries (index pair, value, weight) after the sort are, as a multiset,
\* the entries built before it.
C5_SortedPermutation ==
    Converted =>
        /\ Len(feed.dnn_feat_values) = Len(feed.dnn_feat_indices)
        /\ Len(feed.dnn_feat_weights) = Len(feed.dnn_feat_indices)
        /\ \A p \in 1..(Len(feed.dnn_feat_indices) - 1) :
              LET a == feed.dnn_feat_indices[p]
                  b == feed.dnn_feat_indices[p + 1]
              IN  a[1] < b[1] \/ (a[1] = b[1] /\ a[2] <= b[2])
        /\ LET built == BuiltEntries
                sorted == FeedEntries
            IN  /\ Len(sorted) = Len(built)
                /\ \A p \in DOMAIN built :
                      Count(sorted, built[p]) = Count(built, built[p])

\* a batch whose entries the sort reorders, with differing values and weights
C5_Witness ==
    /\ Converted
    /\ FeedEntries # BuiltEntries
    /\ \E p, q \in DOMAIN FeedEntries :
          /\ FeedEntries[p][2] # FeedEntries[q][2]
          /\ FeedEntries[p][3] # FeedEntries[q][3]

\* 0-based position of triple j of a record among the triples of its field
Occurrence(feats, j) ==
    Cardinality({h \in 1..(j - 1) : feats[h][1] = feats[j][1]})

\* every position of the batch, or -1 when it holds no triple
MaxOccurrence ==
    LET all == UNION {{Occurrence(features_list[i], j) :
                          j \in 1..Len(features_list[i])} :
                      i \in 1..Len(features_list)}
    IN  IF all = {} THEN -1 ELSE CHOOSE m \in all : \A o \in all : o <= m

\* C6: the k-th occurrence (k from 0, in textual order, counted per record)
\* of field f in record i (from 0) is the entry at (i * FIELD_COUNT + f, k)
\* whose value is its feature index; dnn_feat_shape is
\* [records * FIELD_COUNT, 1 + largest position], the width being 0 for a
\* batch without triples.
C6_PositionsAndShape ==
    Converted =>
        /\ \A i \in 1..Len(features_list) :
              \A j \in 1..Len(features_list[i]) :
                  LET t == features_list[i][j]
                      at == <<(i - 1) * FIELD_COUNT + t[1],
                              Occurrence(features_list[i], j)>>
                  IN  \E p \in 1..Len(feed.dnn_feat_indices) :
                          /\ feed.dnn_feat_indices[p] = at
                          /\ feed.dnn_feat_values[p] = t[2]
        /\ feed.dnn_feat_shape =
              <<Len(features_list) * FIELD_COUNT, 1 + MaxOccurrence>>

\* a record that repeats a field, followed by a record that uses it again
C6_Witness ==
    /\ Converted
    /\ Len(features_list) = 2
    /\ Len(features_list[1]) = 2
    /\ Len(features_list[2]) = 1
    /\ features_list[1][1][1] = features_list[1][2][1]
    /\ features_list[2][1][1] = features_list[1][1][1]
    /\ features_list[1][1][1] < FIELD_COUNT

RECURSIVE TotalTriples(_)
TotalTriples(features) ==
    IF features = <<>> THEN 0
    ELSE Len(Head(features)) + TotalTriples(Tail(features))

\* C9: the flat index pairs and values, and the field-grouped index pairs,
\* values and weights, are each as many as the triples of the batch; the flat
\* shape is [records, FEATURE_COUNT] and labels has one row per record.
C9_CountsConserved ==
    Converted =>
        LET total == TotalTriples(features_list)
        IN  /\ Len(feed.fm_feat_indices) = total
            /\ Len(feed.fm_feat_values) = total
            /\ Len(feed.dnn_feat_indices) = total
            /\ Len(feed.dnn_feat_values) = total
            /\ Len(feed.dnn_feat_weights) = total
            /\ feed.fm_feat_shape = <<Len(features_list), FEATURE_COUNT>>
            /\ Len(feed.label) = Len(label_list)
            /\ Len(label_list) = Len(features_list)

\* a batch of a label-only record and a record with triples
C9_Witness ==
    /\ Converted
    /\ \E i, k \in 1..Len(features_list) :
          features_list[i] = <<>> /\ Len(features_list[k]) >= 2

\* the triples of the batch are within the configured counts
BatchInRange ==
    \A i \in 1..Len(features_list) :
        \A j \in 1..Len(features_list[i]) :
            /\ InRange(features_list[i][j])
            /\ features_list[i][j][1] >= 0

\* with every field within FIELD_COUNT the index pairs are pairwise distinct
DistinctWhenInRange ==
    (Converted /\ BatchInRange) =>
        \A p, q \in 1..Len(feed.dnn_feat_indices) :
            p # q => feed.dnn_feat_indices[p] # feed.dnn_feat_indices[q]

=============================================================================
